---- MODULE Spec2Model ----
(***************************************************************************)
(* Model of the watermark remover: the inference worker                    *)
(* (src/src/watermarkRemover.worker.ts), the worker client adapter         *)
(* (useWatermarkRemover, src/unnamed/part_000), the batch controller       *)
(* (processImages in src/src/App.tsx) and the image normalizer             *)
(* (fileToImageData, src/unnamed/part_004).                                *)
(*                                                                         *)
(* One action is one task of the JavaScript event loop together with the   *)
(* microtasks it triggers: a message handler up to its next await that     *)
(* waits for an external event, or the continuation after such an await.   *)
(*                                                                         *)
(* The inference engine (tfjs) and the browser image decoder and canvas     *)
(* are external: whether they throw, with which message, and the shape of  *)
(* predict's output are drawn nondeterministically.  Error messages are    *)
(* sequences of words, so that String.includes is a search for a           *)
(* contiguous run of words and string concatenation is \o.                 *)
(***************************************************************************)
EXTENDS Integers, Sequences, FiniteSets, TLC

VARIABLES
    \* ---- inference worker ------------------------------------------------
    model,            \* `model`: 0 = null, n = the n-th instance createModel built
    created,          \* number of model instances constructed so far
    tracked,          \* the engine keeps the weights of `model` among its variables
    weightsDisposed,  \* the model's weight variables were disposed (tf.disposeVariables)
    numTensors,       \* live transient tensors (tf.memory().numTensors without the weights)
    loads,            \* LOAD_MODEL handlers suspended at an await
    tasks,            \* PROCESS_IMAGE handlers suspended at `await processedTensor.data()`
    inbox,            \* messages posted to the worker, not yet handled
    outbox,           \* messages posted by the worker, not yet dispatched on the main thread
    reqLog,           \* history: one record per PROCESS_IMAGE message posted to the worker
    dups,             \* history: responses repeated by a misbehaving worker (SpecProto)
    \* ---- worker client adapter -------------------------------------------
    worker,           \* `worker` state of the hook: TRUE once setWorker(newWorker) ran
    mounted,          \* `mounted` of the init effect (FALSE before the effect ran)
    modelLoaded,      \* `modelLoaded`
    loading,          \* `loading`
    lastError,        \* `error` of the hook: <<>> = null, <<m>> = message m
    listeners,        \* per-call message handlers registered on the worker (call numbers)
    calls,            \* history: one record per processImage call of the adapter
    \* ---- batch controller ------------------------------------------------
    images,           \* `images`: sequence of ImageFile records
    processing,       \* `processing`
    progress,         \* `progress`
    appError,         \* `error` of App: <<>> = null, <<m>> = ProcessingError m
    run,              \* the activation of processImages: position, snapshot, counters
    nextId,           \* next job id (crypto.randomUUID() yields fresh ids)
    previews,         \* ids of the jobs whose preview blob URL has not been revoked
    \* ---- image normalizer (SpecNorm) -------------------------------------
    norm              \* one activation of fileToImageData: position, blob URLs, outcome

wvars == <<model, created, tracked, weightsDisposed, numTensors, loads, tasks, inbox, outbox, reqLog, dups>>
avars == <<worker, mounted, modelLoaded, loading, lastError, listeners, calls>>
cvars == <<images, processing, progress, appError, run, nextId, previews>>
vars  == <<model, created, tracked, weightsDisposed, numTensors, loads, tasks, inbox, outbox, reqLog, dups,
           worker, mounted, modelLoaded, loading, lastError, listeners, calls,
           images, processing, progress, appError, run, nextId, previews, norm>>

----------------------------------------------------------------------------
\* Bounds of the model
MaxReq   == 2      \* PROCESS_IMAGE messages the test client posts (SpecWorker, SpecProto)
MaxLoads == 2      \* LOAD_MODEL messages the test client posts (SpecWorker)
MaxDup   == 1      \* responses a misbehaving worker repeats (SpecProto)
MaxJobs  == 2      \* jobs ingested over a session (Spec)

\* Optional values: <<>> is absent, <<v>> is present
None    == <<>>
Some(v) == <<v>>

----------------------------------------------------------------------------
\* Strings as sequences of words
Includes(msg, needle) ==
    \E i \in 1..(Len(msg) - Len(needle) + 1) :
        SubSeq(msg, i, i + Len(needle) - 1) = needle

MsgModelNotLoaded == <<"Model", "not", "loaded">>
MsgDimMin   == <<"Image", "dimensions", "must", "be", "at", "least", "32x32", "pixels">>
MsgDimMax   == <<"Image", "dimensions", "must", "not", "exceed", "4096x4096", "pixels">>
MsgUnknown  == <<"Unknown", "error">>
\* thrown by `new ImageData(data, width, height)` when data.length # 4*width*height
MsgImageData == <<"The", "input", "data", "length", "is", "not", "equal", "to", "(4*width*height)">>
\* thrown by a layer whose weights were disposed
MsgDisposed == <<"LayersVariable", "is", "already", "disposed">>
\* errors the engine can throw from an operation (the empty message is new Error(''))
MsgTexture  == <<"Requested", "texture", "size", "greater", "than", "WebGL", "maximum">>
EngineErrors == {MsgTexture, <<>>}
\* thrown by tf.browser.fromPixels for a buffer it cannot read
MsgPixels   == <<"pixels", "passed", "to", "tf.browser.fromPixels()", "can", "not", "be", "null">>

----------------------------------------------------------------------------
\* Inference worker

MIN_DIMENSION == 32
MAX_DIMENSION == 4096

\* validateImageDimensions: <<>> when the dimensions pass, <<m>> when it throws m
validateImageDimensionsNever(width, height) == None
validateImageDimensions(width, height) ==
    IF width < MIN_DIMENSION \/ height < MIN_DIMENSION THEN Some(MsgDimMin)
    ELSE IF width > MAX_DIMENSION \/ height > MAX_DIMENSION THEN Some(MsgDimMax)
    ELSE None

\* The tensor-creating statements of processImage in program order; pushed
\* tells whether the tensor is pushed on `tensors` (and so disposed by finally)
TensorOps ==
    << [op |-> "fromPixels", pushed |-> TRUE],
       [op |-> "div",        pushed |-> TRUE],
       [op |-> "expandDims", pushed |-> TRUE],
       [op |-> "tidy",       pushed |-> TRUE],
       [op |-> "mul",        pushed |-> FALSE],
       [op |-> "squeeze",    pushed |-> TRUE] >>

\* number of tensors on `tensors` after the first k statements completed
Pushed(k) == Cardinality({i \in 1..k : TensorOps[i].pushed})

\* shapes [height, width, channels] predict may return for an input of
\* [height, width, 3] (fromPixels yields 3 channels)
PredictShapes(height, width) ==
    { <<height, width, 3>>, <<height, width, 4>>, <<height, width \div 2, 4>> }

\* an ImageData read from a canvas: getImageData(0, 0, sw, sh) yields a buffer
\* of sw * sh RGBA pixels (len is data.length)
getImageData(sw, sh) == [width |-> sw, height |-> sh, len |-> 4 * sw * sh]

\* `new ImageData(data, width, height)` throws unless data.length is
\* 4 * width * height
ImageDataAcceptsAny(len, width, height) == TRUE
ImageDataAccepts(len, width, height) == len = 4 * width * height

LoadMsg == [type |-> "LOAD_MODEL", id |-> 0, req |-> 0, width |-> 0, height |-> 0, len |-> 0]
ProcessMsg(id, req, imageData) ==
    [type |-> "PROCESS_IMAGE", id |-> id, req |-> req,
     width |-> imageData.width, height |-> imageData.height, len |-> imageData.len]

ModelLoadedMsg(success, error) ==
    [type |-> "MODEL_LOADED", success |-> success, id |-> 0, req |-> 0,
     processedImageData |-> None, error |-> error]
CompleteMsgNoId(success, id, req, img, error) ==
    [type |-> "PROCESSING_COMPLETE", success |-> success, id |-> 0, req |-> req,
     processedImageData |-> img, error |-> error]
CompleteMsg(success, id, req, img, error) ==
    [type |-> "PROCESSING_COMPLETE", success |-> success, id |-> id, req |-> req,
     processedImageData |-> img, error |-> error]

\* the finally block of processImage after the tensors of `tensors` were
\* disposed and `transient` tensors are left: tf.disposeVariables() runs when
\* the engine still counts a tensor (the weights of a model are tensors too)
SweepRuns(transient) == transient > 0 \/ (model # 0 /\ ~weightsDisposed)

\* tf.disposeVariables() disposes the variables registered with the engine;
\* whether the weights of `model` are among them is decided by the engine
\* when the model is built
Sweep(transient) ==
    weightsDisposed' = (weightsDisposed \/ (tracked /\ SweepRuns(transient)))

\* `if (!model)` of the PROCESS_IMAGE case
ModelMissingNever == FALSE
ModelMissing == model = 0

\* history of a request when its handler starts: the worker's state then
Handled(r, inferred) ==
    [r EXCEPT !.handled = TRUE, !.unloaded = (model = 0), !.inferred = inferred]

\* self.postMessage of a response, recorded in the history of its request
Post(msg) ==
    /\ outbox' = Append(outbox, msg)
    /\ reqLog' = [reqLog EXCEPT ![msg.req].resp = Append(@, msg)]

PostAnd(msg, inferred) ==
    /\ outbox' = Append(outbox, msg)
    /\ reqLog' = [reqLog EXCEPT ![msg.req] = [Handled(@, inferred) EXCEPT !.resp = Append(@, msg)]]

\* case 'LOAD_MODEL': the handler runs up to `await tf.ready()`
WorkerLoadBegin ==
    /\ inbox # <<>>
    /\ Head(inbox).type = "LOAD_MODEL"
    /\ inbox' = Tail(inbox)
    /\ loads' = loads + 1
    /\ UNCHANGED <<model, created, tracked, weightsDisposed, numTensors, tasks, outbox, reqLog, dups>>
    /\ UNCHANGED avars /\ UNCHANGED cvars
    /\ UNCHANGED norm

\* case 'LOAD_MODEL': the rest of the handler; tf.ready, tf.setBackend or
\* createModel may throw, and then `model` is not assigned
WorkerLoadEnd ==
    /\ loads > 0
    /\ loads' = loads - 1
    /\ \/ /\ created' = created + 1
          /\ model' = created + 1
          /\ weightsDisposed' = FALSE
          /\ tracked' \in BOOLEAN
          /\ outbox' = Append(outbox, ModelLoadedMsg(TRUE, None))
       \/ \E e \in EngineErrors :
          /\ outbox' = Append(outbox, ModelLoadedMsg(FALSE, Some(e)))
          /\ UNCHANGED <<model, created, tracked, weightsDisposed>>
    /\ UNCHANGED <<numTensors, tasks, inbox, reqLog, dups>>
    /\ UNCHANGED avars /\ UNCHANGED cvars
    /\ UNCHANGED norm

\* case 'PROCESS_IMAGE': the handler from its start to the response, or to
\* the suspension at `await processedTensor.data()`
WorkerProcessBegin ==
    /\ inbox # <<>>
    /\ Head(inbox).type = "PROCESS_IMAGE"
    /\ inbox' = Tail(inbox)
    /\ LET m == Head(inbox)
           v == validateImageDimensions(m.width, m.height)
           Fail(e, inferred) == PostAnd(CompleteMsg(FALSE, m.id, m.req, None, Some(e)), inferred)
           \* an exception at statement k: statements 1..k-1 created tensors,
           \* finally disposes the pushed ones and then checks numTensors
           Throw(k, e, inferred) ==
               LET left == numTensors + (k - 1) - Pushed(k - 1) IN
               /\ numTensors' = left
               /\ Sweep(left)
               /\ Fail(e, inferred)
               /\ UNCHANGED tasks
       IN
       IF ModelMissing THEN
          /\ Fail(MsgModelNotLoaded, FALSE)
          /\ UNCHANGED <<weightsDisposed, numTensors, tasks>>
       ELSE IF v # None THEN
          /\ Fail(v[1], FALSE)
          /\ UNCHANGED <<weightsDisposed, numTensors, tasks>>
       ELSE
          \/ Throw(1, MsgPixels, FALSE)                            \* fromPixels throws
          \/ /\ weightsDisposed /\ Throw(4, MsgDisposed, TRUE)     \* predict on disposed weights
          \/ /\ ~weightsDisposed
             /\ \E e \in EngineErrors : Throw(4, e, TRUE)          \* predict throws
          \/ /\ ~weightsDisposed                                   \* all six tensors created
             /\ tasks' = tasks \cup {[req |-> m.req, id |-> m.id,
                                       width |-> m.width, height |-> m.height]}
             /\ numTensors' = numTensors + Len(TensorOps)
             /\ reqLog' = [reqLog EXCEPT ![m.req] = Handled(@, TRUE)]
             /\ UNCHANGED <<weightsDisposed, outbox>>
    /\ UNCHANGED <<model, created, tracked, loads, dups>>
    /\ UNCHANGED avars /\ UNCHANGED cvars
    /\ UNCHANGED norm

\* case 'PROCESS_IMAGE': the continuation after `await processedTensor.data()`
\* resolved, for the shape processedTensor has (nothing reads the shape
\* earlier): new ImageData(data, width, height), resolve or reject, finally,
\* response (a rejection of data() takes the catch block the ImageData
\* exception takes)
WorkerProcessEnd ==
    \E t \in tasks : \E shape \in PredictShapes(t.height, t.width) :
    /\ tasks' = tasks \ {t}
    /\ LET height == shape[1]
           width  == shape[2]
           len    == shape[1] * shape[2] * shape[3]
           left   == numTensors - Pushed(Len(TensorOps))
       IN
       /\ numTensors' = left
       /\ Sweep(left)
       /\ IF ImageDataAccepts(len, width, height)
          THEN Post(CompleteMsg(TRUE, t.id, t.req,
                                Some([width |-> width, height |-> height, len |-> len]), None))
          ELSE Post(CompleteMsg(FALSE, t.id, t.req, None, Some(MsgImageData)))
    /\ UNCHANGED <<model, created, tracked, loads, inbox, dups>>
    /\ UNCHANGED avars /\ UNCHANGED cvars
    /\ UNCHANGED norm

----------------------------------------------------------------------------
\* Worker client adapter (useWatermarkRemover)

MsgWorkerNotInit   == <<"Worker", "not", "initialized">>
MsgModelNotLoadedYet == <<"Model", "not", "loaded", "yet">>
MsgLoadFailedTop   == <<"Failed", "to", "load", "AI", "model">>

\* JavaScript truthiness of an optional string: undefined and '' are falsy
Truthy(opt) == opt # None /\ opt[1] # <<>>

\* `if (!worker || !modelLoaded)` of processImage
NotReadyWorkerOnly == ~worker
NotReady == ~worker \/ ~modelLoaded
NotReadyMessage == IF ~worker THEN MsgWorkerNotInit ELSE MsgModelNotLoadedYet

\* the result object handed to onComplete
Result(id, success, imageData, error) ==
    [id |-> id, success |-> success, imageData |-> imageData, error |-> error]

\* messageHandler: `type === 'PROCESSING_COMPLETE' && id === resultId`, for
\* every handler registered on the worker
MatchingAnyId(msg) == {c \in listeners : msg.type = "PROCESSING_COMPLETE"}
Matching(msg) ==
    {c \in listeners : msg.type = "PROCESSING_COMPLETE" /\ calls[c].id = msg.id}

\* the result messageHandler builds from a message
ResultOf(c, msg) ==
    Result(calls[c].id, msg.success,
           IF msg.success THEN msg.processedImageData ELSE None,
           IF msg.success THEN None ELSE msg.error)

\* a new entry of the call history
NewCall(id, kind) ==
    [id |-> id, kind |-> kind, n |-> 0, got |-> <<>>, sync |-> FALSE, threw |-> FALSE,
     err |-> None]

\* history: the call found the adapter not ready and its callback was invoked
\* within the call, with the error text of the not-ready branch
FailedAtOnce(call) == [call EXCEPT !.n = 1, !.sync = TRUE, !.err = Some(NotReadyMessage)]

\* worker.removeEventListener('message', messageHandler) of the handlers cs
removeEventListenerNever(cs) == listeners
removeEventListener(cs) == listeners \ cs

\* history: callback of call c invoked with the response msg
Invoked(cs, c, msg) == [cs EXCEPT ![c].n = @ + 1, ![c].got = Append(@, msg.id)]

\* the init effect: new Worker, setLoading(true), setError(null),
\* setWorker(newWorker), postMessage LOAD_MODEL
MountPostingTwice ==
    /\ ~worker
    /\ mounted' = TRUE
    /\ worker' = TRUE
    /\ loading' = TRUE
    /\ lastError' = None
    /\ inbox' = inbox \o <<LoadMsg, LoadMsg>>
    /\ UNCHANGED <<modelLoaded, listeners, calls>>
    /\ UNCHANGED <<model, created, tracked, weightsDisposed, numTensors, loads, tasks, outbox, reqLog, dups>>
    /\ UNCHANGED cvars
    /\ UNCHANGED norm
Mount ==
    /\ ~worker
    /\ mounted' = TRUE
    /\ worker' = TRUE
    /\ loading' = TRUE
    /\ lastError' = None
    /\ inbox' = Append(inbox, LoadMsg)
    /\ UNCHANGED <<modelLoaded, listeners, calls>>
    /\ UNCHANGED <<model, created, tracked, weightsDisposed, numTensors, loads, tasks, outbox, reqLog, dups>>
    /\ UNCHANGED cvars
    /\ UNCHANGED norm

\* the `worker` the cleanup of the init effect reads: the effect has no
\* dependencies, so its closure holds the state of the first render, null
EffectWorker == FALSE

\* the hook was mounted and its cleanup has run
Disposed == worker /\ ~mounted

\* worker.terminate(): the worker stops, its pending tasks and the messages
\* in flight in both directions are discarded
Terminate ==
    /\ inbox' = <<>> /\ outbox' = <<>>
    /\ loads' = 0 /\ tasks' = {}
    /\ UNCHANGED <<model, created, tracked, weightsDisposed, numTensors, reqLog, dups>>

\* the cleanup of the init effect: `mounted = false; if (worker) worker.terminate()`
Unmount ==
    /\ mounted
    /\ mounted' = FALSE
    /\ IF EffectWorker THEN Terminate ELSE UNCHANGED wvars
    /\ UNCHANGED <<worker, modelLoaded, loading, lastError, listeners, calls>>
    /\ UNCHANGED cvars
    /\ UNCHANGED norm

\* newWorker.onmessage for a MODEL_LOADED message (ignored once `mounted` is
\* false), with the onModelLoaded and onError options App passes to the hook;
\* the per-call handlers ignore the message
DispatchModelLoaded ==
    /\ outbox # <<>>
    /\ Head(outbox).type = "MODEL_LOADED"
    /\ outbox' = Tail(outbox)
    /\ LET msg == Head(outbox) IN
       IF ~mounted
       THEN UNCHANGED <<loading, modelLoaded, lastError, appError>>
       ELSE
       /\ loading' = FALSE
       /\ modelLoaded' = msg.success
       /\ IF msg.success
          THEN appError' = None /\ UNCHANGED lastError
          ELSE IF Truthy(msg.error)
          THEN lastError' = msg.error /\ appError' = Some(MsgLoadFailedTop)
          ELSE UNCHANGED <<lastError, appError>>
    /\ UNCHANGED <<worker, mounted, listeners, calls>>
    /\ UNCHANGED <<model, created, tracked, weightsDisposed, numTensors, loads, tasks, inbox, reqLog, dups>>
    /\ UNCHANGED <<images, processing, progress, run, nextId, previews>>
    /\ UNCHANGED norm

----------------------------------------------------------------------------
\* Test clients of the worker and of the adapter

Ids == {1, 2}
\* dimensions of the buffers the test client sends: too small, valid, too large
TestDims == { <<16, 16>>, <<64, 48>>, <<5000, 64>> }

NewReq(id, imageData) ==
    [id |-> id, width |-> imageData.width, height |-> imageData.height,
     len |-> imageData.len, handled |-> FALSE, unloaded |-> FALSE,
     inferred |-> FALSE, resp |-> <<>>]

LoadsPosted ==
    Len(SelectSeq(inbox, LAMBDA m : m.type = "LOAD_MODEL")) + loads
    + Len(SelectSeq(outbox, LAMBDA m : m.type = "MODEL_LOADED"))

\* the client posts LOAD_MODEL to the worker
ClientPostLoad ==
    /\ LoadsPosted < MaxLoads
    /\ inbox' = Append(inbox, LoadMsg)
    /\ UNCHANGED <<model, created, tracked, weightsDisposed, numTensors, loads, tasks, outbox, reqLog, dups>>
    /\ UNCHANGED avars /\ UNCHANGED cvars
    /\ UNCHANGED norm

\* the client posts PROCESS_IMAGE to the worker, with a fresh id
ClientPostProcess ==
    /\ Len(reqLog) < MaxReq
    /\ \E d \in TestDims :
          LET id == Len(reqLog) + 1 IN
          /\ inbox' = Append(inbox, ProcessMsg(id, Len(reqLog) + 1, getImageData(d[1], d[2])))
          /\ reqLog' = Append(reqLog, NewReq(id, getImageData(d[1], d[2])))
    /\ UNCHANGED <<model, created, tracked, weightsDisposed, numTensors, loads, tasks, outbox, dups>>
    /\ UNCHANGED avars /\ UNCHANGED cvars
    /\ UNCHANGED norm

\* the client calls processImage of the adapter with a callback that records
\* its invocation and then returns or throws; ids are interchangeable, so a
\* call takes an id used before or the next unused one; the client makes no
\* call on a disposed adapter
TestCall ==
    /\ Len(calls) < MaxReq
    /\ ~Disposed
    /\ \E id \in {i \in Ids : i <= Len(calls) + 1} :
       IF NotReady
       THEN /\ calls' = Append(calls, FailedAtOnce(NewCall(id, "test")))
            /\ UNCHANGED <<listeners, inbox, reqLog>>
       ELSE /\ calls' = Append(calls, NewCall(id, "test"))
            /\ listeners' = listeners \cup {Len(calls) + 1}
            /\ inbox' = Append(inbox, ProcessMsg(id, Len(reqLog) + 1, getImageData(64, 48)))
            /\ reqLog' = Append(reqLog, NewReq(id, getImageData(64, 48)))
    /\ UNCHANGED <<worker, mounted, modelLoaded, loading, lastError>>
    /\ UNCHANGED <<model, created, tracked, weightsDisposed, numTensors, loads, tasks, outbox, dups>>
    /\ UNCHANGED cvars
    /\ UNCHANGED norm

\* a PROCESSING_COMPLETE message is dispatched to the handlers registered on
\* the worker: each matching handler calls onComplete and then removes
\* itself; when onComplete throws, the exception leaves messageHandler before
\* removeEventListener (the other handlers still run)
DispatchToTest ==
    /\ outbox # <<>>
    /\ Head(outbox).type = "PROCESSING_COMPLETE"
    /\ outbox' = Tail(outbox)
    /\ LET msg == Head(outbox)
           hit == Matching(msg)
       IN
       \E thrown \in SUBSET hit :
          /\ calls' = [c \in 1..Len(calls) |->
                         IF c \in hit
                         THEN [Invoked(calls, c, msg)[c] EXCEPT !.threw = @ \/ c \in thrown]
                         ELSE calls[c]]
          /\ listeners' = removeEventListener(hit \ thrown)
    /\ UNCHANGED <<worker, mounted, modelLoaded, loading, lastError>>
    /\ UNCHANGED <<model, created, tracked, weightsDisposed, numTensors, loads, tasks, inbox, reqLog, dups>>
    /\ UNCHANGED cvars
    /\ UNCHANGED norm

\* a misbehaving worker posts the response it has just posted once more
WorkerRepeat ==
    /\ dups < MaxDup
    /\ outbox # <<>>
    /\ outbox[Len(outbox)].type = "PROCESSING_COMPLETE"
    /\ outbox' = Append(outbox, outbox[Len(outbox)])
    /\ dups' = dups + 1
    /\ UNCHANGED <<model, created, tracked, weightsDisposed, numTensors, loads, tasks, inbox, reqLog>>
    /\ UNCHANGED avars /\ UNCHANGED cvars
    /\ UNCHANGED norm

----------------------------------------------------------------------------

\* Image normalizer (imageUtils) as the batch controller uses it

WEBGL_MAX_DIMENSION == 8192
MAX_MEMORY_USAGE == 1024 * 1024 * 1024
MAX_FILES == 50

MsgTooMuchMemory == <<"Image", "requires", "too", "much", "memory", "to", "process">>
MsgLoadFailed    == <<"Failed", "to", "load", "image">>
MsgNoContext     == <<"Failed", "to", "create", "canvas", "context">>
\* thrown by the canvas when it cannot allocate the pixel buffer
MsgCanvasMemory  == <<"Out", "of", "memory", "at", "ImageData", "creation">>
MsgEncode        == <<"Could", "not", "get", "2D", "context", "from", "canvas">>
MsgRecoveryFailed == <<"Recovery", "processing", "failed">>
PrefixProcess    == <<"Failed", "to", "process", "image:">>
PrefixLarge      == <<"Failed", "to", "process", "large", "image:">>
CanvasErrors     == {MsgNoContext, MsgCanvasMemory}
MsgTimeout       == <<"Image", "loading", "timed", "out">>
\* thrown by drawImage when its source canvas has a width or a height of 0
MsgZeroCanvas    == <<"The", "image", "argument", "is", "a", "canvas", "element",
                     "with", "a", "width", "or", "height", "of", "0">>

\* the ceiling fileToImageData uses when no maxDimension is passed, and the
\* ceiling the recovery attempt of processImages passes
DefaultMaxDimensionEighth == WEBGL_MAX_DIMENSION \div 8
DefaultMaxDimension  == WEBGL_MAX_DIMENSION \div 2
RecoveryMaxDimension == WEBGL_MAX_DIMENSION \div 4

\* the files a user can drop: decodable (within the memory ceiling or above
\* it) or not, with the decoded size
Files ==
    { [ok |-> TRUE,  width |-> 9000,  height |-> 6000],
      [ok |-> TRUE,  width |-> 20000, height |-> 20000],
      [ok |-> FALSE, width |-> 0,     height |-> 0] }

Ok(v)  == [ok |-> TRUE,  val |-> v,    msg |-> <<>>]
Err(m) == [ok |-> FALSE, val |-> <<>>, msg |-> m]

\* Math.round of a / b for positive a and b
Round(a, b) == (2 * a + b) \div (2 * b)

estimateMemoryUsage(width, height) == width * height * 4

\* getImageDimensions: the outcomes of the promise (the 30 s timer, whose
\* rejection is one more message without a capacity word, is left out)
getImageDimensionsNoCeiling(file) ==
    IF ~file.ok THEN {Err(MsgLoadFailed)} ELSE {Ok(<<file.width, file.height>>)}
getImageDimensions(file) ==
    IF ~file.ok THEN {Err(MsgLoadFailed)}
    ELSE IF estimateMemoryUsage(file.width, file.height) > MAX_MEMORY_USAGE
         THEN {Err(MsgTooMuchMemory)}
         ELSE {Ok(<<file.width, file.height>>)}

calculateOptimalDimensions(width, height, maxDimension) ==
    LET newWidth  == IF width > height
                     THEN (IF width > maxDimension THEN maxDimension ELSE width)
                     ELSE (IF height > maxDimension
                           THEN Round(maxDimension * width, height) ELSE width)
        newHeight == IF width > height
                     THEN (IF width > maxDimension
                           THEN Round(maxDimension * height, width) ELSE height)
                     ELSE (IF height > maxDimension THEN maxDimension ELSE height)
    IN  << (newWidth \div 2) * 2, (newHeight \div 2) * 2 >>

\* resizeImageWithSteps: the ImageData read from the final canvas, which has
\* the target size, or an exception: no 2D context, no memory for the pixel
\* buffer, and, when a target dimension is 0, the intermediate canvas is
\* empty and drawImage refuses it as a source
resizeImageWithSteps(targetWidth, targetHeight) ==
    IF targetWidth = 0 \/ targetHeight = 0
    THEN { Err(MsgZeroCanvas), Err(MsgNoContext) }
    ELSE { Ok(getImageData(targetWidth, targetHeight)) } \cup { Err(m) : m \in CanvasErrors }

\* imageToImageData: the pixels of the decoded image at its own size, or an
\* exception
imageToImageData(width, height) ==
    { Ok(getImageData(width, height)), Err(MsgEncode), Err(MsgCanvasMemory) }

\* fileToImageData(file, {maxDimension}): fileToImage (getImageDimensions, then
\* the decode), calculateOptimalDimensions, the canvas work; every failure is
\* rethrown as 'Failed to process image: ' + message
fileToImageData(file, maxDimension) ==
    LET wrap(o) == Err(PrefixProcess \o o.msg)
        target  == calculateOptimalDimensions(file.width, file.height, maxDimension)
    IN
    { wrap(o) : o \in {x \in getImageDimensions(file) : ~x.ok} }
    \cup (IF \E x \in getImageDimensions(file) : x.ok
          THEN { IF o.ok THEN o ELSE wrap(o) :
                   o \in IF target # <<file.width, file.height>>
                         THEN resizeImageWithSteps(target[1], target[2])
                         ELSE imageToImageData(file.width, file.height) }
          ELSE {})

\* imageDataToDataURL: the data URL (its size and quality) or an exception
imageDataToDataURL(imageData, quality) ==
    { Ok([width |-> imageData.width, height |-> imageData.height, quality |-> quality]),
      Err(MsgEncode) }

----------------------------------------------------------------------------
\* One activation of the normalizer, fileToImageData(file, {maxDimension}),
\* step by step, with the blob URLs it holds (SpecNorm).  The canvases are
\* locals of resizeImageWithSteps and imageToImageData, unreachable once
\* these return or throw.

\* the files and ceilings the normalizer is run on: sizes of 1, odd sizes,
\* sizes at and just above a ceiling, extreme aspect ratios
NormFiles ==
    Files \cup
    { [ok |-> TRUE, width |-> d[1], height |-> d[2]] :
        d \in { <<1, 300>>, <<33, 33>>, <<64, 48>>, <<100, 101>>, <<4096, 4096>>,
                <<4097, 3>>, <<9000, 2>>, <<9000, 6001>>, <<3000, 5000>>,
                <<16384, 16384>>, <<16384, 16385>> } }
NormCeilings == {101, RecoveryMaxDimension, DefaultMaxDimension}

NoNorm == [pc |-> "idle", file |-> [ok |-> FALSE, width |-> 0, height |-> 0],
           type |-> "", typed |-> None,
           maxDimension |-> 0, urls |-> {}, calls |-> <<>>, dims |-> None,
           target |-> None, path |-> "none", result |-> None]

\* IMAGE_CONFIG.SUPPORTED_TYPES, and the MIME types a file may carry
SUPPORTED_TYPES == {"image/jpeg", "image/png", "image/webp"}
MimeTypes == SUPPORTED_TYPES \cup {"", "image/gif", "IMAGE/PNG", "jpeg", "text/plain"}

MsgInvalidType == <<"Invalid", "image", "type:", "type", "must", "be", "a", "non-empty", "string">>
MsgUnsupportedType(type) == <<"Unsupported", "image", "type:", type>>

\* validateImageType: <<>> when the type passes, <<m>> when it throws m
validateImageTypeAny(type) == None
validateImageType(type) ==
    IF type = "" THEN Some(MsgInvalidType)
    ELSE IF type \notin SUPPORTED_TYPES THEN Some(MsgUnsupportedType(type))
    ELSE None

\* a promise keeps its first settlement: later resolve and reject calls are
\* ignored
Settle(promise, outcome) == IF promise = None THEN Some(outcome) ELSE promise

\* fileToImageData -> fileToImage: validateImageType(file.type), whose
\* exception reaches the catch of fileToImageData, then getImageDimensions up
\* to the promise: the blob URL of the probe image is created
NormStart ==
    /\ norm.pc = "idle"
    /\ \E file \in NormFiles, maxDimension \in NormCeilings, type \in MimeTypes :
          LET v == validateImageType(type) IN
          IF v # None
          THEN norm' = [NoNorm EXCEPT !.pc = "done", !.file = file, !.type = type,
                                      !.typed = Some(v), !.maxDimension = maxDimension,
                                      !.result = Some(Err(PrefixProcess \o v[1]))]
          ELSE norm' = [NoNorm EXCEPT !.pc = "dims", !.file = file, !.type = type,
                                      !.typed = Some(v), !.maxDimension = maxDimension,
                                      !.urls = {"dims"}]
    /\ UNCHANGED wvars /\ UNCHANGED avars /\ UNCHANGED cvars

\* the first of img.onload, img.onerror and the 30 s timer of
\* getImageDimensions: each revokes the probe URL and settles the promise;
\* fileToImage then creates the URL of the image it returns, or the
\* rejection reaches the catch of fileToImageData
NormDimsEvent ==
    /\ norm.pc = "dims"
    /\ \E o \in getImageDimensions(norm.file) \cup {Err(MsgTimeout)} :
          norm' = [norm EXCEPT
                     !.calls  = Append(@, o),
                     !.dims   = Settle(@, o),
                     !.urls   = (@ \ {"dims"}) \cup (IF o.ok THEN {"image"} ELSE {}),
                     !.pc     = IF o.ok THEN "decode" ELSE "done",
                     !.result = IF o.ok THEN @ ELSE Some(Err(PrefixProcess \o o.msg))]
    /\ UNCHANGED wvars /\ UNCHANGED avars /\ UNCHANGED cvars

\* img.onload or img.onerror of getImageDimensions after its timer fired:
\* the handler runs as before, on a promise that is already settled
NormLateEvent ==
    /\ norm.calls = <<Err(MsgTimeout)>>
    /\ \E o \in getImageDimensions(norm.file) :
          norm' = [norm EXCEPT !.calls = Append(@, o), !.dims = Settle(@, o),
                               !.urls = @ \ {"dims"}]
    /\ UNCHANGED wvars /\ UNCHANGED avars /\ UNCHANGED cvars

\* img.onload or the 30 s timer of fileToImage: onload resolves with the
\* image and leaves its URL to the caller, the timer revokes it and rejects
NormDecodeEvent ==
    /\ norm.pc = "decode"
    /\ \E loaded \in BOOLEAN :
          norm' = IF loaded
                  THEN [norm EXCEPT !.pc = "canvas"]
                  ELSE [norm EXCEPT !.pc = "done", !.urls = @ \ {"image"},
                                    !.result = Some(Err(PrefixProcess \o MsgTimeout))]
    /\ UNCHANGED wvars /\ UNCHANGED avars /\ UNCHANGED cvars

\* fileToImageData after `await fileToImage(file)`: the target size, the
\* resize or the direct conversion, then URL.revokeObjectURL(img.src) and
\* the return; an exception of the canvas work goes to the catch instead
NormCanvas ==
    /\ norm.pc = "canvas"
    /\ LET img    == norm.file
           target == calculateOptimalDimensions(img.width, img.height, norm.maxDimension)
           resize == target[1] # img.width \/ target[2] # img.height
       IN  \E o \in IF resize THEN resizeImageWithSteps(target[1], target[2])
                              ELSE imageToImageData(img.width, img.height) :
              norm' = [norm EXCEPT
                         !.pc     = "done",
                         !.target = Some(target),
                         !.path   = IF resize THEN "resize" ELSE "direct",
                         !.urls   = IF o.ok THEN @ \ {"image"} ELSE @,
                         !.result = Some(IF o.ok THEN o ELSE Err(PrefixProcess \o o.msg))]
    /\ UNCHANGED wvars /\ UNCHANGED avars /\ UNCHANGED cvars

----------------------------------------------------------------------------
\* Batch controller (App)

NoRun == [pc |-> "idle", snap |-> <<>>, idx |-> 0, done |-> 0, call |-> 0,
          first |-> None, sent |-> 0, recov |-> 0, out |-> <<>>, prog |-> <<>>]

NewImage(id, file) ==
    [id |-> id, file |-> file, status |-> "idle", processed |-> None, error |-> None]

\* the three setImages updaters of processImages
MarkProcessing(imgs, id) ==
    [i \in 1..Len(imgs) |->
        IF imgs[i].id = id THEN [imgs[i] EXCEPT !.status = "processing"] ELSE imgs[i]]
MarkDone(imgs, id, dataURL) ==
    [i \in 1..Len(imgs) |->
        IF imgs[i].id = id
        THEN [imgs[i] EXCEPT !.processed = Some(dataURL), !.status = "done"] ELSE imgs[i]]
MarkErrorAll(imgs, id, msg) ==
    [i \in 1..Len(imgs) |-> [imgs[i] EXCEPT !.status = "error", !.error = Some(msg)]]
MarkError(imgs, id, msg) ==
    [i \in 1..Len(imgs) |->
        IF imgs[i].id = id
        THEN [imgs[i] EXCEPT !.status = "error", !.error = Some(msg)] ELSE imgs[i]]

\* the test of the catch block at line 208
IsCapacityErrorNoMemory(errorMessage) ==
    \/ Includes(errorMessage, <<"texture", "size">>)
    \/ Includes(errorMessage, <<"WebGL">>)
IsCapacityError(errorMessage) ==
    \/ Includes(errorMessage, <<"texture", "size">>)
    \/ Includes(errorMessage, <<"WebGL">>)
    \/ Includes(errorMessage, <<"memory">>)

Job == run.snap[run.idx]

\* history of the job the loop leaves
Outcome(kind, url, msg, first, sent, recov) ==
    [kind |-> kind, url |-> url, msg |-> msg, first |-> first, sent |-> sent, recov |-> recov]

\* the for loop goes on: the next job is set to processing and
\* getImageDimensions is called, or the loop ends and finally runs; `set` is
\* the sequence of values the job passed to setProgress (history)
Advance(imgs, done, o, set) ==
    IF run.idx < Len(run.snap)
    THEN /\ images' = MarkProcessing(imgs, run.snap[run.idx + 1].id)
         /\ run' = [run EXCEPT !.pc = "dims", !.idx = run.idx + 1, !.done = done, !.call = 0,
                               !.first = None, !.sent = 0, !.recov = 0,
                               !.out = Append(@, o), !.prog = @ \o set]
         /\ UNCHANGED processing
    ELSE /\ images' = imgs
         /\ run' = [run EXCEPT !.pc = "idle", !.done = done, !.call = 0,
                               !.out = Append(@, o), !.prog = @ \o set]
         /\ processing' = FALSE

\* lines 259-260: the job succeeded (kind is "ok" or "recovered")
Succeed(imgs, kind, url, first, sent, recov) ==
    /\ progress' = Round((run.done + 1) * 100, Len(run.snap))
    /\ Advance(imgs, run.done + 1, Outcome(kind, Some(url), None, first, sent, recov),
               << Round((run.done + 1) * 100, Len(run.snap)) >>)

\* the catch block at line 261: the error is recorded on the job
FailJob(imgs, msg, first, sent, recov) ==
    /\ UNCHANGED progress
    /\ Advance(MarkError(imgs, Job.id, msg), run.done,
               Outcome("error", None, Some(msg), first, sent, recov), <<>>)

\* the catch block at line 205 for the first failure of the job: a capacity
\* error starts the recovery pass (fileToImageData at a quarter of the
\* ceiling), any other error is rethrown
FirstFailure(imgs, errorMessage, sent) ==
    IF IsCapacityError(errorMessage)
    THEN /\ images' = imgs
         /\ run' = [run EXCEPT !.pc = "renorm", !.first = Some(errorMessage),
                               !.sent = sent, !.recov = 1, !.call = 0]
         /\ UNCHANGED <<progress, processing>>
    ELSE FailJob(imgs, errorMessage, Some(errorMessage), sent, 0)

\* the catch block at line 248 for a failure of the recovery pass
RecoveryFailure(imgs, msg, sent) ==
    FailJob(imgs, PrefixLarge \o msg, run.first, sent, run.recov)

\* setImages was called in this step: the list changed, or an updater ran
\* for a job that is no longer in the list (a job left the loop, lines
\* 182-188, 229-235 and 263-269, or the first attempt was answered with a
\* failure, lines 192-198)
SetImagesCalled ==
    \/ images' # images
    \/ Len(run'.out) > Len(run.out)
    \/ run.pc = "wait1" /\ run'.pc = "renorm"

\* the effect with the dependency list [images] (lines 336-345): when the
\* list is replaced, React runs the cleanup of the previous render, which
\* revokes the preview URL of every job of the previous list; onDrop has
\* created the preview URL of a job it adds
EffectCleanup ==
    previews' = IF SetImagesCalled
                THEN {images'[j].id : j \in 1..Len(images')}
                        \ {images[i].id : i \in 1..Len(images)}
                ELSE previews

\* onDrop with one accepted file
AddImage ==
    /\ nextId <= MaxJobs
    /\ \E file \in {f \in Files : TRUE} :
          IF Len(images) + 1 > MAX_FILES
          THEN /\ appError' = Some(<<"Maximum", "images", "allowed">>)
               /\ UNCHANGED <<images, nextId>>
          ELSE /\ images' = Append(images, NewImage(nextId, file))
               /\ nextId' = nextId + 1
               /\ appError' = None
    /\ UNCHANGED <<processing, progress, run>>
    /\ UNCHANGED wvars /\ UNCHANGED avars
    /\ EffectCleanup
    /\ UNCHANGED norm

\* removeImage(id)
RemoveImage ==
    /\ \E i \in 1..Len(images) :
          images' = SelectSeq(images, LAMBDA img : img.id # images[i].id)
    /\ UNCHANGED <<processing, progress, appError, run, nextId>>
    /\ UNCHANGED wvars /\ UNCHANGED avars
    /\ EffectCleanup
    /\ UNCHANGED norm

\* the `disabled` attribute of the process button
ButtonDisabledIgnoresRun == loading \/ ~modelLoaded \/ Len(images) = 0
ButtonDisabled == processing \/ loading \/ ~modelLoaded \/ Len(images) = 0

\* processImages from the click on the process button up to the first await
StartBatch ==
    /\ ~ButtonDisabled
    /\ ~(~modelLoaded \/ Len(images) = 0)                            \* line 136
    /\ progress' = 0
    /\ appError' = None
    /\ LET imagesToProcess == SelectSeq(images, LAMBDA img : img.status = "idle")
           snap == [i \in 1..Len(imagesToProcess) |->
                       [id |-> imagesToProcess[i].id, file |-> imagesToProcess[i].file]]
       IN
       IF snap = <<>>
       THEN /\ run' = [NoRun EXCEPT !.pc = "idle"]
            /\ processing' = FALSE
            /\ UNCHANGED images
       ELSE /\ run' = [NoRun EXCEPT !.pc = "dims", !.snap = snap, !.idx = 1]
            /\ processing' = TRUE
            /\ images' = MarkProcessing(images, snap[1].id)
    /\ UNCHANGED nextId
    /\ UNCHANGED wvars /\ UNCHANGED avars
    /\ EffectCleanup
    /\ UNCHANGED norm

\* line 160: `await getImageDimensions(image.file)` settles
DimsDone ==
    /\ run.pc = "dims"
    /\ \E o \in getImageDimensions(Job.file) :
          IF o.ok
          THEN /\ run' = [run EXCEPT !.pc = "norm"]
               /\ UNCHANGED <<images, progress, processing>>
          ELSE FirstFailure(images, o.msg, 0)
    /\ UNCHANGED <<appError, nextId>>
    /\ UNCHANGED wvars /\ UNCHANGED avars
    /\ EffectCleanup
    /\ UNCHANGED norm

\* the adapter's processImage called from the promise executor: not ready,
\* the callback runs at once with a failure; otherwise a handler is registered
\* and PROCESS_IMAGE is posted
SendRequest(kind, imageData, nextPc) ==
    /\ calls' = Append(calls, NewCall(Job.id, kind))
    /\ listeners' = listeners \cup {Len(calls) + 1}
    /\ inbox' = Append(inbox, ProcessMsg(Job.id, Len(reqLog) + 1, imageData))
    /\ reqLog' = Append(reqLog, NewReq(Job.id, imageData))
    /\ run' = [run EXCEPT !.pc = nextPc, !.call = Len(calls) + 1, !.sent = @ + 1]
    /\ UNCHANGED <<images, progress, processing>>

\* line 168: `await fileToImageData(image.file)` settles; on success the
\* first request is made (lines 170-204)
NormDone ==
    /\ run.pc = "norm"
    /\ \E o \in fileToImageData(Job.file, DefaultMaxDimension) :
          IF ~o.ok
          THEN /\ FirstFailure(images, o.msg, 0)
               /\ UNCHANGED <<calls, listeners, inbox, reqLog>>
          ELSE IF NotReady
          THEN /\ calls' = Append(calls, FailedAtOnce(NewCall(Job.id, "first")))
               /\ FirstFailure(MarkError(images, Job.id, NotReadyMessage), NotReadyMessage, 0)
               /\ UNCHANGED <<listeners, inbox, reqLog>>
          ELSE SendRequest("first", o.val, "wait1")
    /\ UNCHANGED <<appError, nextId>>
    /\ UNCHANGED <<model, created, tracked, weightsDisposed, numTensors, loads, tasks, outbox, dups>>
    /\ UNCHANGED <<worker, mounted, modelLoaded, loading, lastError>>
    /\ EffectCleanup
    /\ UNCHANGED norm

\* line 216: `await fileToImageData(image.file, {maxDimension: ... / 4})`
\* settles; on success the recovery request is made (lines 221-247)
RenormDone ==
    /\ run.pc = "renorm"
    /\ \E o \in fileToImageData(Job.file, RecoveryMaxDimension) :
          IF ~o.ok
          THEN /\ RecoveryFailure(images, o.msg, run.sent)
               /\ UNCHANGED <<calls, listeners, inbox, reqLog>>
          ELSE IF NotReady
          THEN /\ calls' = Append(calls, FailedAtOnce(NewCall(Job.id, "recovery")))
               /\ RecoveryFailure(images, NotReadyMessage, run.sent)
               /\ UNCHANGED <<listeners, inbox, reqLog>>
          ELSE SendRequest("recovery", o.val, "wait2")
    /\ UNCHANGED <<appError, nextId>>
    /\ UNCHANGED <<model, created, tracked, weightsDisposed, numTensors, loads, tasks, outbox, dups>>
    /\ UNCHANGED <<worker, mounted, modelLoaded, loading, lastError>>
    /\ EffectCleanup
    /\ UNCHANGED norm

\* onComplete of the first attempt (lines 175-202) and what the settled
\* promise resumes
OnCompleteFirst(c, result) ==
    IF result.success /\ result.imageData # None
    THEN \E e \in imageDataToDataURL(result.imageData[1], 100) :
            IF e.ok
            THEN /\ Succeed(MarkDone(images, calls[c].id, e.val), "ok", e.val, None, run.sent, 0)
                 /\ calls' = Invoked(calls, c, [id |-> result.id])
                 /\ listeners' = removeEventListener({c})
            ELSE \* the exception leaves messageHandler before removeEventListener
                 /\ calls' = [Invoked(calls, c, [id |-> result.id]) EXCEPT ![c].threw = TRUE]
                 /\ UNCHANGED <<listeners, images, run, progress, processing>>
    ELSE LET errorMsg == IF Truthy(result.error) THEN result.error[1] ELSE MsgUnknown IN
         /\ FirstFailure(MarkError(images, calls[c].id, errorMsg), errorMsg, run.sent)
         /\ calls' = Invoked(calls, c, [id |-> result.id])
         /\ listeners' = removeEventListener({c})

\* onComplete of the recovery pass (lines 226-245) and what the settled
\* promise resumes
OnCompleteRecovery(c, result) ==
    IF result.success /\ result.imageData # None
    THEN \E e \in imageDataToDataURL(result.imageData[1], 90) :
            IF e.ok
            THEN /\ Succeed(MarkDone(images, calls[c].id, e.val), "recovered", e.val,
                            run.first, run.sent, run.recov)
                 /\ calls' = Invoked(calls, c, [id |-> result.id])
                 /\ listeners' = removeEventListener({c})
            ELSE /\ calls' = [Invoked(calls, c, [id |-> result.id]) EXCEPT ![c].threw = TRUE]
                 /\ UNCHANGED <<listeners, images, run, progress, processing>>
    ELSE /\ RecoveryFailure(images,
                            IF Truthy(result.error) THEN result.error[1] ELSE MsgRecoveryFailed,
                            run.sent)
         /\ calls' = Invoked(calls, c, [id |-> result.id])
         /\ listeners' = removeEventListener({c})

\* a PROCESSING_COMPLETE message is dispatched on the main thread: every
\* registered messageHandler compares the id; the batch controller has at
\* most one handler registered
DispatchToApp ==
    /\ outbox # <<>>
    /\ Head(outbox).type = "PROCESSING_COMPLETE"
    /\ outbox' = Tail(outbox)
    /\ LET msg == Head(outbox)
           hit == Matching(msg)
       IN
       IF hit = {}
       THEN UNCHANGED <<calls, listeners, images, run, progress, processing>>
       ELSE \E c \in hit :
               /\ hit = {c}
               /\ c = run.call
               /\ IF calls[c].kind = "first"
                  THEN OnCompleteFirst(c, ResultOf(c, msg))
                  ELSE OnCompleteRecovery(c, ResultOf(c, msg))
    /\ UNCHANGED <<appError, nextId>>
    /\ UNCHANGED <<model, created, tracked, weightsDisposed, numTensors, loads, tasks, inbox, reqLog, dups>>
    /\ UNCHANGED <<worker, mounted, modelLoaded, loading, lastError>>
    /\ EffectCleanup
    /\ UNCHANGED norm

----------------------------------------------------------------------------
Init ==
    /\ model = 0 /\ created = 0 /\ tracked = FALSE /\ weightsDisposed = FALSE /\ numTensors = 0
    /\ loads = 0 /\ tasks = {} /\ inbox = <<>> /\ outbox = <<>> /\ reqLog = <<>> /\ dups = 0
    /\ worker = FALSE /\ mounted = FALSE /\ modelLoaded = FALSE /\ loading = FALSE /\ lastError = None
    /\ listeners = {} /\ calls = <<>>
    /\ images = <<>> /\ processing = FALSE /\ progress = 0 /\ appError = None
    /\ run = NoRun /\ nextId = 1 /\ previews = {}
    /\ norm = NoNorm

\* the worker alone, driven by a client that posts messages to it
NextWorker ==
    \/ ClientPostLoad
    \/ ClientPostProcess
    \/ WorkerLoadBegin
    \/ WorkerLoadEnd
    \/ WorkerProcessBegin
    \/ WorkerProcessEnd

SpecWorker == Init /\ [][NextWorker]_vars

\* the adapter and the worker, driven by a client that calls processImage,
\* with a worker that may repeat a response
NextProto ==
    \/ Mount
    \/ TestCall
    \/ DispatchModelLoaded
    \/ DispatchToTest
    \/ WorkerLoadBegin
    \/ WorkerLoadEnd
    \/ WorkerProcessBegin
    \/ WorkerProcessEnd
    \/ WorkerRepeat

SpecProto == Init /\ [][NextProto]_vars

\* the adapter and the worker, driven by a client that calls processImage and
\* disposes the adapter at any time
NextDispose ==
    \/ Mount
    \/ Unmount
    \/ TestCall
    \/ DispatchModelLoaded
    \/ DispatchToTest
    \/ WorkerLoadBegin
    \/ WorkerLoadEnd
    \/ WorkerProcessBegin
    \/ WorkerProcessEnd

SpecDispose == Init /\ [][NextDispose]_vars

\* the application: batch controller, adapter and worker
Next ==
    \/ Mount
    \/ DispatchModelLoaded
    \/ AddImage
    \/ RemoveImage
    \/ StartBatch
    \/ DimsDone
    \/ NormDone
    \/ RenormDone
    \/ DispatchToApp
    \/ WorkerLoadBegin
    \/ WorkerLoadEnd
    \/ WorkerProcessBegin
    \/ WorkerProcessEnd

Spec == Init /\ [][Next]_vars

\* the application with the scheduling of the event loops: a queued message is
\* dispatched, a pending promise of the normalizer settles, and the worker
\* handles every message it received and finishes every handler it started
Scheduling ==
    /\ WF_vars(DispatchModelLoaded)
    /\ WF_vars(DispatchToApp)
    /\ WF_vars(DimsDone)
    /\ WF_vars(NormDone)
    /\ WF_vars(RenormDone)
    /\ WF_vars(WorkerLoadBegin)
    /\ WF_vars(WorkerLoadEnd)
    /\ WF_vars(WorkerProcessBegin)
    /\ WF_vars(WorkerProcessEnd)

SpecLive == Init /\ [][Next]_vars /\ Scheduling

\* the normalizer alone, run once on a file and a ceiling
NextNorm ==
    \/ NormStart
    \/ NormDimsEvent
    \/ NormLateEvent
    \/ NormDecodeEvent
    \/ NormCanvas

SpecNorm == Init /\ [][NextNorm]_vars

----------------------------------------------------------------------------
\* Properties of the inference worker (SpecWorker)

\* C4: every call path through the worker's processImage releases every
\* transient tensor it created, so that the transient tensor count is back at
\* its baseline whenever no call is in progress.
TensorsReleased == (tasks = {}) => numTensors = 0

\* C7: every PROCESS_IMAGE message handled by the worker produces exactly one
\* PROCESSING_COMPLETE message, which echoes the id of the request and is
\* either a success with a buffer or a failure with an error message.
ExactlyOneResponse ==
    \A r \in 1..Len(reqLog) :
       LET q == reqLog[r] IN
       /\ Len(q.resp) <= 1
       /\ (q.handled /\ ~(\E t \in tasks : t.req = r)) => Len(q.resp) = 1
       /\ \A i \in 1..Len(q.resp) :
             LET m == q.resp[i] IN
             /\ m.type = "PROCESSING_COMPLETE"
             /\ m.id = q.id
             /\ \/ m.success /\ m.processedImageData # None /\ m.error = None
                \/ ~m.success /\ m.processedImageData = None /\ m.error # None

\* two requests handled interleaved: the handler of the earlier request was
\* suspended while the later one was handled and answered with a failure, and
\* then answered with success
TwoInterleavedAnswered ==
    \E i, j \in 1..Len(outbox) :
       /\ i < j
       /\ outbox[i].type = "PROCESSING_COMPLETE" /\ ~outbox[i].success
       /\ outbox[j].type = "PROCESSING_COMPLETE" /\ outbox[j].success
       /\ outbox[j].req < outbox[i].req
       /\ reqLog[outbox[i].req].inferred

\* C8: a PROCESS_IMAGE message handled while the worker has no model is
\* answered with the failure 'Model not loaded' and runs no inference.
NotLoadedAnswered ==
    \A r \in 1..Len(reqLog) :
       LET q == reqLog[r] IN
       (q.handled /\ q.unloaded) =>
          /\ q.resp = << [type |-> "PROCESSING_COMPLETE", success |-> FALSE, id |-> q.id,
                          req |-> r, processedImageData |-> <<>>,
                          error |-> << <<"Model", "not", "loaded">> >>] >>
          /\ ~q.inferred

\* one request was answered before the load ended and one after the load
\* had failed, both while the worker had no model
HandledWhileNotLoaded ==
    \E i, j, k \in 1..Len(outbox) :
       /\ i < j /\ j < k
       /\ outbox[i].type = "PROCESSING_COMPLETE" /\ reqLog[outbox[i].req].unloaded
       /\ outbox[j].type = "MODEL_LOADED" /\ ~outbox[j].success
       /\ outbox[k].type = "PROCESSING_COMPLETE" /\ reqLog[outbox[k].req].unloaded

\* C15: the worker answers MODEL_LOADED with success:true exactly for the
\* loads that created the model, it is Loaded exactly when one of them
\* succeeded, and a failed load is final: no MODEL_LOADED success follows a
\* MODEL_LOADED failure of the same worker.
LoadFailedIsTerminal ==
    LET Answer(i)    == outbox[i].type = "MODEL_LOADED"
        Succeeded(i) == Answer(i) /\ outbox[i].success
        Failed(i)    == Answer(i) /\ ~outbox[i].success
    IN
    /\ Cardinality({i \in 1..Len(outbox) : Succeeded(i)}) = created
    /\ (model # 0) <=> (\E i \in 1..Len(outbox) : Succeeded(i))
    /\ \A i, j \in 1..Len(outbox) : (i < j /\ Failed(i)) => ~Succeeded(j)

\* C16: over the lifetime of a worker at most one model instance is
\* constructed, whatever number of LOAD_MODEL messages it receives.
AtMostOneModel == created <= 1

\* C17: a loaded model stays usable: no processImage call and no part of its
\* cleanup disposes the weights of the model.
ModelStaysUsable == (model # 0) => ~weightsDisposed

\* C18: every success response carries a buffer of the width and height of
\* the request's buffer (an output of another spatial shape is answered with
\* a failure).
SameSizeOnSuccess ==
    \A r \in 1..Len(reqLog) : \A i \in 1..Len(reqLog[r].resp) :
       LET m == reqLog[r].resp[i] IN
       m.success =>
          /\ m.processedImageData[1].width = reqLog[r].width
          /\ m.processedImageData[1].height = reqLog[r].height

----------------------------------------------------------------------------
\* Properties of the adapter (SpecProto)

\* C6: a pending callback is invoked only with a response that carries the id
\* of its own call, and a PROCESSING_COMPLETE whose id matches no pending call
\* invokes no callback and removes no listener.
OwnResponseOnly ==
    [][ LET UnmatchedDispatch ==
               /\ outbox # <<>>
               /\ outbox' = Tail(outbox)
               /\ Head(outbox).type = "PROCESSING_COMPLETE"
               /\ \A c \in listeners : calls[c].id # Head(outbox).id
        IN
        /\ \A c \in 1..Len(calls') : \A i \in 1..Len(calls'[c].got) :
              calls'[c].got[i] = calls'[c].id
        /\ UnmatchedDispatch => (listeners' = listeners /\ calls' = calls)
      ]_vars

\* two calls with distinct ids are in flight together; the response to the
\* second arrived first and invoked the second callback only, the worker
\* repeated it, and the repeated response, which matched no pending call, was
\* dispatched while the first call was still pending
CrossedResponses ==
    /\ Len(calls) >= 2
    /\ calls[1].id # calls[2].id
    /\ calls[1].n = 0 /\ 1 \in listeners
    /\ calls[2].n = 1 /\ ~calls[2].sync /\ 2 \notin listeners
    /\ calls[2].got = <<calls[2].id>>
    /\ dups = 1 /\ outbox = <<>>

\* C5: the callback of a processImage call is invoked at most once, also when
\* the worker repeats the response, and once it was invoked the handler of
\* the call is no longer registered on the worker.
CallbackAtMostOnce ==
    \A c \in 1..Len(calls) :
       /\ calls[c].n <= 1
       /\ (calls[c].n >= 1 => c \notin listeners)

\* C14: a processImage call made while modelLoaded is false invokes its
\* callback within the call with a failure, posts no message to the worker
\* and registers no listener; the error text is 'Worker not initialized' when
\* there is no worker and 'Model not loaded yet' otherwise.
NotReadyFailsAtOnce ==
    [][ (Len(calls') = Len(calls) + 1 /\ ~modelLoaded) =>
           LET call == calls'[Len(calls')] IN
           /\ call.n = 1 /\ call.sync
           /\ call.err = IF ~worker
                          THEN << <<"Worker", "not", "initialized">> >>
                          ELSE << <<"Model", "not", "loaded", "yet">> >>
           /\ inbox' = inbox /\ reqLog' = reqLog
           /\ listeners' = listeners
      ]_vars

\* one call was made before the worker existed and one while the model was
\* still loading; each failed at once with its own text
BothNotReadyTexts ==
    /\ Len(calls) = 2
    /\ calls[1].sync /\ calls[1].err = << <<"Worker", "not", "initialized">> >>
    /\ calls[2].sync /\ calls[2].err = << <<"Model", "not", "loaded", "yet">> >>
    /\ loading /\ reqLog = <<>>

\* C20: once the adapter is disposed the worker is terminated, so it handles
\* and posts nothing more, and no callback of a call that was in flight at
\* the disposal is invoked.
DisposalSilencesCalls ==
    [][ Disposed =>
           /\ \A c \in 1..Len(calls) : calls'[c].n = calls[c].n
           /\ inbox' = inbox /\ loads' = loads /\ tasks' = tasks
           /\ Len(outbox') <= Len(outbox)
      ]_vars

----------------------------------------------------------------------------
\* Properties of the batch controller (Spec)

\* C1: the status of a job changes only from idle to processing and from
\* processing to done or to error; a job that is done or error keeps its
\* status.
StatusTerminal ==
    [][ \A i \in 1..Len(images), j \in 1..Len(images') :
           (images[i].id = images'[j].id) =>
              \/ images'[j].status = images[i].status
              \/ images[i].status = "idle" /\ images'[j].status = "processing"
              \/ images[i].status = "processing" /\ images'[j].status \in {"done", "error"}
      ]_vars

\* C2: while job number idx of a run over N jobs is in progress, idx - 1 jobs
\* have resolved and progress is round((idx - 1) / N * 100); when the run has
\* ended, progress is 100.
ProgressAfterEachJob ==
    /\ (run.pc # "idle" => progress = Round((run.idx - 1) * 100, Len(run.snap)))
    /\ (run.pc = "idle" /\ run.out # <<>> => progress = 100)

\* C3: a failure of a job does not stop the run: the run sets no batch-level
\* error, a job that failed carries status error with its message, and
\* after a failure in the recovery pass of a job the loop has left that job.
FailureNeverAborts ==
    /\ (run.pc # "idle" => appError = None)
    /\ \A k \in 1..Len(run.out) :
          run.out[k].kind = "error" =>
             \A i \in 1..Len(images) :
                images[i].id = run.snap[k].id =>
                   images[i].status = "error" /\ images[i].error = run.out[k].msg
    /\ \A c \in 1..Len(calls) :
          (calls[c].kind = "recovery" /\ calls[c].threw) =>
             (run.pc = "idle" \/ run.snap[run.idx].id # calls[c].id)

\* C9: a job gets a recovery pass exactly when its first failure message
\* contains 'texture size', 'WebGL' or 'memory', it gets at most one, and at
\* most two PROCESS_IMAGE requests are sent for it.
RecoveryIffCapacity ==
    LET Cap(m) == \/ Includes(m, <<"texture", "size">>)
                  \/ Includes(m, <<"WebGL">>)
                  \/ Includes(m, <<"memory">>)
        Bounded(j) == j.recov <= 1 /\ j.sent <= 2 /\ j.sent <= j.recov + 1
    IN
    /\ \A k \in 1..Len(run.out) :
          LET o == run.out[k] IN
          /\ Bounded(o)
          /\ (o.recov = 1) <=> (o.first # None /\ Cap(o.first[1]))
    /\ Bounded(run)
    /\ (run.recov = 1 => run.first # None /\ Cap(run.first[1]))
    /\ \A r \in 1..Len(reqLog) :
          Cardinality({q \in 1..Len(reqLog) : reqLog[q].id = reqLog[r].id}) <= 2

\* one run in which a job was recovered by its second request and another
\* job failed first with a message without a capacity word and was not retried
RecoveredAndNotRetried ==
    \E k, l \in 1..Len(run.out) :
       /\ run.out[k].kind = "recovered" /\ run.out[k].recov = 1 /\ run.out[k].sent = 2
       /\ run.out[l].kind = "error" /\ run.out[l].recov = 0 /\ run.out[l].sent = 1
       /\ run.out[l].first # None

\* C10: a job whose recovery pass succeeded is done and stores the recovered
\* result; a job whose recovery pass failed, or whose first failure was not a
\* capacity error, is in error with a non-empty description.
RecoveryOutcome ==
    /\ \A k \in 1..Len(run.out) :
          \A i \in 1..Len(images) :
             images[i].id = run.snap[k].id =>
                /\ run.out[k].kind = "recovered" =>
                      /\ images[i].status = "done"
                      /\ images[i].processed = run.out[k].url
                      /\ images[i].processed[1].quality = 90
                /\ run.out[k].kind = "error" =>
                      /\ images[i].status = "error"
                      /\ images[i].error # None /\ images[i].error[1] # <<>>
    /\ \A c \in 1..Len(calls) :
          (calls[c].kind = "recovery" /\ calls[c].threw) =>
             \A i \in 1..Len(images) :
                images[i].id = calls[c].id =>
                   /\ images[i].status = "error"
                   /\ images[i].error # None /\ images[i].error[1] # <<>>

\* C11: for every job of the list the result is present exactly when the
\* status is done and the error description is present exactly when the status
\* is error; so a job that is done, also through the recovery pass, carries no
\* error description.
ResultAndErrorMatchStatus ==
    \A i \in 1..Len(images) :
       /\ (images[i].processed # None) <=> (images[i].status = "done")
       /\ (images[i].error # None) <=> (images[i].status = "error")

\* C12: the jobs of a run are processed one after another: at most one job
\* has status processing, at most one PROCESS_IMAGE request is outstanding at
\* the worker (posted and its response not yet dispatched on the main thread),
\* and a request is sent only when none is outstanding.
OneRequestAtATime ==
    [][ LET PendingIn(box, type) == Len(SelectSeq(box, LAMBDA m : m.type = type))
            Outstanding(in, ts, out) ==
                PendingIn(in, "PROCESS_IMAGE") + Cardinality(ts)
                + PendingIn(out, "PROCESSING_COMPLETE")
            Busy(imgs) ==
                Cardinality({i \in 1..Len(imgs) : imgs[i].status = "processing"})
        IN
        /\ Busy(images) <= 1 /\ Busy(images') <= 1
        /\ Outstanding(inbox, tasks, outbox) <= 1
        /\ Outstanding(inbox', tasks', outbox') <= 1
        /\ Len(reqLog') > Len(reqLog) => Outstanding(inbox, tasks, outbox) = 0
      ]_vars

\* the recovery request of the second job of a run is waiting at the worker:
\* the request of the first job and the first request of the second job were
\* sent and answered before it
SecondJobRecoveryOutstanding ==
    /\ run.pc = "wait2" /\ run.idx = 2
    /\ Len(reqLog) = 3
    /\ Len(inbox) = 1 /\ tasks = {} /\ outbox = <<>>
    /\ Len(reqLog[1].resp) = 1 /\ Len(reqLog[2].resp) = 1

\* C13: when a run over N jobs has ended and no job of it hit a capacity
\* error, the values passed to setProgress after the reset are exactly
\* round(1/N*100), round(2/N*100), ..., 100.
ProgressSequence ==
    LET N == Len(run.snap)
        NoCapacityError ==
            \A k \in 1..Len(run.out) :
               \/ run.out[k].first = None
               \/ ~(\/ Includes(run.out[k].first[1], <<"texture", "size">>)
                    \/ Includes(run.out[k].first[1], <<"WebGL">>)
                    \/ Includes(run.out[k].first[1], <<"memory">>))
    IN
    (run.pc = "idle" /\ Len(run.out) = N /\ N > 0 /\ NoCapacityError) =>
       run.prog = [k \in 1..N |-> Round(k * 100, N)]

\* C19: every pixel buffer that crosses the worker boundary has a data length
\* of width*height*4: the buffer of every PROCESS_IMAGE request the batch
\* controller sends and the buffer of every success response of the worker.
BufferLengths ==
    \A r \in 1..Len(reqLog) :
       /\ reqLog[r].len = reqLog[r].width * reqLog[r].height * 4
       /\ \A i \in 1..Len(reqLog[r].resp) :
             LET m == reqLog[r].resp[i] IN
             m.success =>
                m.processedImageData[1].len
                   = m.processedImageData[1].width * m.processedImageData[1].height * 4

\* the controller sent a full-size buffer and, in a recovery pass, a reduced
\* one: the engine's output for the first had three channels and was refused
\* by the ImageData constructor, the output for the second was returned as a
\* buffer
BuffersBothWays ==
    /\ Len(reqLog) >= 2
    /\ reqLog[1].width = 4096 /\ reqLog[1].height = 2730
    /\ Len(reqLog[1].resp) = 1 /\ ~reqLog[1].resp[1].success
    /\ reqLog[1].resp[1].error = << <<"The", "input", "data", "length", "is", "not",
                                      "equal", "to", "(4*width*height)">> >>
    /\ reqLog[2].width = 2048 /\ reqLog[2].height = 1364
    /\ Len(reqLog[2].resp) = 1 /\ reqLog[2].resp[1].success

----------------------------------------------------------------------------
\* C21: when a MODEL_LOADED message with success false is delivered to the
\* mounted adapter, the adapter takes the message's error text as its error,
\* ends loading with modelLoaded false and calls onError (App then shows
\* 'Failed to load AI model'); the adapter never posts a second LOAD_MODEL,
\* and from then on every processImage call fails at once with the not-ready
\* error and posts nothing.
LoadFailureSurfaced ==
    [][ /\ ( /\ mounted /\ outbox # <<>>
             /\ Head(outbox).type = "MODEL_LOADED" /\ ~Head(outbox).success
             /\ outbox' = Tail(outbox) )
           => ( /\ lastError' = Head(outbox).error
                /\ ~loading' /\ ~modelLoaded'
                /\ appError' = Some(MsgLoadFailedTop) )
        /\ ( worker /\ Len(inbox') > Len(inbox) )
           => inbox'[Len(inbox')].type # "LOAD_MODEL"
        /\ ( worker /\ ~loading /\ ~modelLoaded /\ Len(calls') > Len(calls) )
           => ( /\ calls'[Len(calls')].sync /\ calls'[Len(calls')].n = 1
                /\ calls'[Len(calls')].err = Some(MsgModelNotLoadedYet)
                /\ reqLog' = reqLog /\ inbox' = inbox )
      ]_vars

\* C22: a batch run takes exactly the jobs that are idle when it starts; a
\* step changes a job only if the job is in the snapshot of the run in
\* progress, so jobs that were done or failed at the start and jobs added
\* later are left alone; and while no run is in progress (a run started with
\* no idle job never is) no job changes, no request is posted and the
\* progress value is not set.
RunTakesIdleJobsOnly ==
    [][ LET idle     == {images[i].id : i \in {k \in 1..Len(images) : images[k].status = "idle"}}
            ids(r)   == {r.snap[i].id : i \in 1..Len(r.snap)}
            changed  == {images[i].id : i \in {k \in 1..Len(images) :
                            \E j \in 1..Len(images') :
                               images'[j].id = images[k].id /\ images'[j] # images[k]}}
        IN
        /\ (~processing /\ processing') => ids(run') = idle
        /\ changed \subseteq (ids(run) \cup ids(run'))
        /\ (~processing /\ ~processing')
             => (changed = {} /\ reqLog' = reqLog /\ progress' = progress)
      ]_vars

\* C23: a job recovered by the retry is done, and its result is no wider and
\* no higher than the buffer the first attempt normalized (the buffer of the
\* job's first request; when the first attempt failed in the normalizer, the
\* size the normalizer aims at under the default ceiling).
RecoveredNoLarger ==
    \A k \in 1..Len(run.out) :
       run.out[k].kind = "recovered" =>
          LET job    == run.snap[k]
              reqs   == SelectSeq(reqLog, LAMBDA r : r.id = job.id)
              target == calculateOptimalDimensions(job.file.width, job.file.height,
                                                   DefaultMaxDimension)
              first  == IF run.out[k].sent = 2
                        THEN <<reqs[1].width, reqs[1].height>> ELSE target
              url    == run.out[k].url[1]
          IN  /\ url.width <= first[1] /\ url.height <= first[2]
              /\ \A i \in 1..Len(images) :
                    images[i].id = job.id =>
                       images[i].status = "done" /\ images[i].processed = Some(url)

\* a job whose first request was answered with a capacity error and whose
\* second request, with a smaller buffer, produced the stored result
RecoveredWithSmallerBuffer ==
    \E k \in 1..Len(run.out) : \E i \in 1..Len(images) :
       LET reqs == SelectSeq(reqLog, LAMBDA r : r.id = run.snap[k].id) IN
       /\ run.out[k].kind = "recovered" /\ run.out[k].sent = 2
       /\ Len(reqs) = 2
       /\ reqs[2].width < reqs[1].width /\ reqs[2].height < reqs[1].height
       /\ images[i].id = run.snap[k].id /\ images[i].status = "done"
       /\ images[i].processed[1].width <= reqs[2].width

\* C27: a PROCESS_IMAGE request handled by a loaded worker whose width or
\* height is below 32 or above 4096 gets one response, a failure carrying the
\* dimension message, and no inference runs; a request with both dimensions
\* within [32, 4096] is never answered with a dimension message; and every
\* buffer the normalizer produces under its default ceiling has both
\* dimensions at most 4096.
DimensionsChecked ==
    /\ \A r \in 1..Len(reqLog) :
          LET q     == reqLog[r]
              below == q.width < MIN_DIMENSION \/ q.height < MIN_DIMENSION
              above == q.width > MAX_DIMENSION \/ q.height > MAX_DIMENSION
              DimMessages == {Some(MsgDimMin), Some(MsgDimMax)}
          IN  (q.handled /\ ~q.unloaded) =>
                 /\ (below \/ above) =>
                       /\ ~q.inferred
                       /\ Len(q.resp) = 1
                       /\ ~q.resp[1].success
                       /\ q.resp[1].error = (IF below THEN Some(MsgDimMin) ELSE Some(MsgDimMax))
                 /\ ~(below \/ above) =>
                       \A k \in 1..Len(q.resp) : q.resp[k].error \notin DimMessages
    /\ \A file \in NormFiles :
          \A o \in fileToImageData(file, DefaultMaxDimension) :
             o.ok => o.val.width <= MAX_DIMENSION /\ o.val.height <= MAX_DIMENSION

\* a loaded worker has rejected one request for its dimensions and has run
\* the inference for another whose dimensions are within the range
RejectedAndAccepted ==
    \E r, q \in 1..Len(reqLog) :
       /\ reqLog[r].handled /\ ~reqLog[r].unloaded /\ ~reqLog[r].inferred
       /\ Len(reqLog[r].resp) = 1
       /\ reqLog[r].resp[1].error \in {Some(MsgDimMin), Some(MsgDimMax)}
       /\ reqLog[q].handled /\ ~reqLog[q].unloaded /\ reqLog[q].inferred
       /\ Len(reqLog[q].resp) = 1 /\ reqLog[q].resp[1].success

----------------------------------------------------------------------------
\* Properties of the normalizer (SpecNorm)

\* C24: for every decoded image within the memory ceiling and every ceiling
\* M, the size the normalizer aims at is even and positive in both
\* dimensions, the buffer it returns has that size and 4 bytes per pixel,
\* and it fails only when the canvas gives no context or no memory.
EvenPositiveBuffer ==
    norm.target # None =>
       LET t == norm.target[1]
           r == norm.result[1]
       IN  /\ t[1] > 0 /\ t[2] > 0
           /\ t[1] % 2 = 0 /\ t[2] % 2 = 0
           /\ r.ok => r.val = [width |-> t[1], height |-> t[2], len |-> t[1] * t[2] * 4]
           /\ ~r.ok => r.msg \in {PrefixProcess \o m : m \in CanvasErrors \cup {MsgEncode}}

\* C25: when the larger dimension of the decoded image exceeds the ceiling
\* M, neither target dimension exceeds M, the larger one is within one pixel
\* of M and the smaller one within one pixel of M * smaller / larger.
ResizeWithinOnePixel ==
    ( /\ norm.target # None
      /\ (norm.file.width > norm.maxDimension \/ norm.file.height > norm.maxDimension) )
    =>
       LET W == norm.file.width
           H == norm.file.height
           M == norm.maxDimension
           t == norm.target[1]
           major == IF W > H THEN W ELSE H
           minor == IF W > H THEN H ELSE W
           tmajor == IF W > H THEN t[1] ELSE t[2]
           tminor == IF W > H THEN t[2] ELSE t[1]
       IN  /\ t[1] <= M /\ t[2] <= M
           /\ M - tmajor <= 1 /\ tmajor - M <= 1
           /\ tminor * major - M * minor <= major
           /\ M * minor - tminor * major <= major

\* C26: when neither dimension of the decoded image exceeds the ceiling M,
\* the normalizer does not resize: it converts the image directly and the
\* buffer has the size of the image.
NoResizeWithinCeiling ==
    ( /\ norm.target # None
      /\ norm.file.width <= norm.maxDimension /\ norm.file.height <= norm.maxDimension )
    =>
       /\ norm.path = "direct"
       /\ norm.target[1] = <<norm.file.width, norm.file.height>>
       /\ norm.result[1].ok =>
             norm.result[1].val = getImageData(norm.file.width, norm.file.height)

UrlsReleased ==
    norm.pc = "done" => norm.urls = {}

\* C31: validateImageType passes exactly for image/jpeg, image/png and
\* image/webp and throws for every other type, the empty string included;
\* a second call with the same type has the same outcome; a rejected type
\* ends the normalizer before it has created any URL or started any decode.
TypeAllowList ==
    norm.typed # None =>
       LET outcome == norm.typed[1] IN
       /\ (outcome = None) <=> (norm.type \in {"image/jpeg", "image/png", "image/webp"})
       /\ validateImageType(norm.type) = outcome
       /\ outcome # None =>
             /\ outcome[1] # <<>>
             /\ norm.pc = "done" /\ norm.urls = {} /\ norm.calls = <<>> /\ norm.dims = None
             /\ norm.result = Some(Err(PrefixProcess \o outcome[1]))

\* the normalizer was called on a file whose type is not on the allow-list
\* (and is not empty) and has thrown the type error
UnsupportedTypeRejected ==
    /\ norm.pc = "done"
    /\ norm.type \notin {"image/jpeg", "image/png", "image/webp", ""}
    /\ norm.typed = Some(Some(MsgUnsupportedType(norm.type)))

----------------------------------------------------------------------------
\* C32: the batch controller makes a second call with a job's id only after
\* the callback of the first call with that id has been invoked and its
\* handler removed, so at most one handler is registered per id, at most one
\* response per id is awaited, and no response in flight matches two
\* registered handlers.
OneCallPerIdInFlight ==
    /\ \A c, d \in 1..Len(calls) :
          (c < d /\ calls[c].id = calls[d].id) =>
             /\ calls[c].n = 1
             /\ c \notin listeners
    /\ \A c, d \in listeners : calls[c].id = calls[d].id => c = d
    /\ \A i \in 1..Len(outbox) :
          outbox[i].type = "PROCESSING_COMPLETE" => Cardinality(Matching(outbox[i])) <= 1
    /\ \A i, j \in 1..Len(inbox) :
          (inbox[i].type = "PROCESS_IMAGE" /\ inbox[j].type = "PROCESS_IMAGE"
           /\ inbox[i].id = inbox[j].id) => i = j

\* the recovery request of a job is in flight, with the job's id, after the
\* first request with that id was answered and its handler removed
RecoveryReusesId ==
    \E c, d \in 1..Len(calls) :
       /\ c < d /\ calls[c].id = calls[d].id
       /\ calls[c].kind = "first" /\ calls[c].n = 1 /\ c \notin listeners
       /\ calls[d].kind = "recovery" /\ calls[d].n = 0 /\ d \in listeners
       /\ \E i \in 1..Len(inbox) : inbox[i].type = "PROCESS_IMAGE" /\ inbox[i].id = calls[d].id

\* C33: every job that is in the list has a preview URL that has not been
\* revoked, whatever was added, removed or updated before.
PreviewsKept ==
    \A i \in 1..Len(images) : images[i].id \in previews

\* C34: every batch run terminates: once processing is true it becomes false
\* again, and then every job of the run's snapshot that is still in the list
\* is done or error.
BatchTerminates ==
    processing ~> (/\ ~processing
                   /\ \A k \in 1..Len(run.snap) : \A i \in 1..Len(images) :
                         images[i].id = run.snap[k].id => images[i].status \in {"done", "error"})

\* C35: a run starts only when no run is active: when processImages takes a
\* new snapshot, processing is false, the previous loop has ended, no request
\* of an earlier run is in flight, and the jobs it takes are idle jobs that no
\* earlier run took.
RunsNeverOverlap ==
    [][ run'.snap # run.snap =>
          /\ ~processing
          /\ run.pc = "idle"
          /\ tasks = {}
          /\ \A i \in 1..Len(inbox) : inbox[i].type # "PROCESS_IMAGE"
          /\ \A i \in 1..Len(outbox) : outbox[i].type # "PROCESSING_COMPLETE"
          /\ \A k \in 1..Len(run'.snap) :
                /\ \E i \in 1..Len(images) :
                      images[i].id = run'.snap[k].id /\ images[i].status = "idle"
                /\ \A j \in 1..Len(run.snap) : run.snap[j].id # run'.snap[k].id
                /\ \A r \in 1..Len(reqLog) : reqLog[r].id # run'.snap[k].id ]_vars

\* C35 witness: a second run is waiting for the answer to its request after an
\* earlier run made a request for another job
SecondRunAfterFirst ==
    /\ processing
    /\ run.pc = "wait1"
    /\ \E r \in 1..Len(reqLog) : \A k \in 1..Len(run.snap) : reqLog[r].id # run.snap[k].id

\* C36: a job that was removed never comes back and the updates of a run
\* touch one job only: a job that enters the list has a fresh id, a step
\* that adds or removes a job leaves every other job as it was, and any other
\* step keeps the list's order and changes at most the job the loop is at
\* (before or after the step), never its id or file; an update for an id that
\* is not in the list changes no job.
RemovedStaysRemoved ==
    [][ LET ids(s) == {s[i].id : i \in 1..Len(s)}
            cur(r) == IF r.idx \in 1..Len(r.snap) THEN {r.snap[r.idx].id} ELSE {}
        IN
        /\ \A i \in 1..Len(images) : images[i].id < nextId
        /\ \A j \in 1..Len(images') :
              \/ images'[j].id \in ids(images)
              \/ images'[j].id = nextId /\ nextId' > nextId
        /\ ids(images') # ids(images) =>
              \A i \in 1..Len(images) : \A j \in 1..Len(images') :
                 images'[j].id = images[i].id => images'[j] = images[i]
        /\ ids(images') = ids(images) =>
              /\ Len(images') = Len(images)
              /\ \A i \in 1..Len(images) :
                    /\ images'[i].id = images[i].id
                    /\ images'[i].file = images[i].file
                    /\ images'[i] # images[i] => images[i].id \in cur(run) \cup cur(run')
        /\ (cur(run) \cup cur(run')) \cap ids(images) = {} => images' = images \/ run' = run ]_vars

\* C36 witness: the job the run has a request in flight for was removed from
\* the list, in which another job remains
RemovedWhileProcessing ==
    /\ processing
    /\ run.pc \in {"wait1", "wait2"}
    /\ images # <<>>
    /\ \A i \in 1..Len(images) : images[i].id # Job.id

\* C37: the adapter's modelLoaded implies a loaded worker: when modelLoaded is
\* true the worker has handled LOAD_MODEL and holds the model it built; a
\* PROCESS_IMAGE message has been posted only with modelLoaded true, and no
\* request the adapter accepted was handled without a model or answered
\* 'Model not loaded'.
LoadedBeforeRequests ==
    /\ modelLoaded =>
          /\ model # 0 /\ created >= 1
          /\ loads = 0
          /\ \A i \in 1..Len(inbox) : inbox[i].type # "LOAD_MODEL"
    /\ reqLog # <<>> => modelLoaded
    /\ \A r \in 1..Len(reqLog) :
          /\ ~reqLog[r].unloaded
          /\ reqLog[r].resp # <<>> =>
                reqLog[r].resp[1].error # << <<"Model", "not", "loaded">> >>
    /\ \A i \in 1..Len(outbox) :
          outbox[i].type = "PROCESSING_COMPLETE" =>
             outbox[i].error # << <<"Model", "not", "loaded">> >>

\* C37 witness: a request the adapter accepted was handled by the worker with
\* its model and answered
AcceptedAndAnswered ==
    /\ modelLoaded
    /\ \E r \in 1..Len(reqLog) :
          reqLog[r].handled /\ reqLog[r].resp # <<>> /\ model # 0

====
